---- MODULE Spec2Model ----
(***************************************************************************)
(* kubectl-ips: the command (Complete, Validate, Run), the pod-to-IP       *)
(* extractor, the sorter, the field formatters, the table builder and the  *)
(* name-only and IP-only printers.                                         *)
(*                                                                         *)
(* Go strings are modelled as sequences of byte values, so that the        *)
(* string comparison of the sorter, the concatenations of the formatters   *)
(* and the decimal rendering of numbers are computed, not assumed.         *)
(* A nil pointer is the empty sequence and a non-nil pointer to v is <<v>>.*)
(***************************************************************************)
EXTENDS Integers, Sequences, FiniteSets, TLC

VARIABLES
    pc,          \* position of the run: which step of RunE (or of a direct call) is next
    o,           \* the IPsOptions record
    err,         \* the error RunE returned ("nil" when none or not yet)
    out,         \* o.Out: the chunks written with fmt.Fprintf, in order
    printed,     \* the calls made to the library printers (table, json, yaml)
    queries,     \* how many times getPods listed pods from the cluster
    calls,       \* the methods RunE has called so far, in order
    pods,        \* the PodList at hand (the query's result, or the direct input)
    podIPList,   \* the extractor's result, before sorting
    sortedList,  \* the sorter's result
    table,       \* the metav1.Table generateTable built
    pod,         \* the pod handed to FormatPodStatus (or to FormatRestarts)
    status,      \* what FormatPodStatus (or FormatRestarts) returned
    outFails,    \* whether the writes to o.Out fail (a closed or full stream)
    writeFailed  \* whether a write to o.Out has failed in this run

vars == <<pc, o, err, out, printed, queries, calls, pods, podIPList, sortedList, table, pod, status,
          outFails, writeFailed>>

(***************************************************************************)
(* Bounds of the model.                                                    *)
(***************************************************************************)
\* longest pod list handed to the extractor and the table builder
MaxPods == 2
\* longest pod list the cluster returns to the command
MaxClusterPods == 2
\* longest status.initContainerStatuses
MaxInit == 2
\* longest status.containerStatuses
MaxContainers == 3
\* most container statuses of one pod, init and main together
MaxStatuses == 3

(***************************************************************************)
(* String literals of the program, as byte sequences.                      *)
(***************************************************************************)
\* "json"
jsonFormat == <<106, 115, 111, 110>>
\* "yaml"
yamlFormat == <<121, 97, 109, 108>>
\* "name"
nameFormat == <<110, 97, 109, 101>>
\* "table"
tableFormat == <<116, 97, 98, 108, 101>>
\* "wide"
wideFormat == <<119, 105, 100, 101>>
\* "invalid"
invalidFormat == <<105, 110, 118, 97, 108, 105, 100>>
\* "<none>"
noneValue == <<60, 110, 111, 110, 101, 62>>
\* "<unknown>"
unknownValue == <<60, 117, 110, 107, 110, 111, 119, 110, 62>>
\* "Init:"
strInit == <<73, 110, 105, 116, 58>>
\* "Signal:"
strSignal == <<83, 105, 103, 110, 97, 108, 58>>
\* "ExitCode:"
strExitCode == <<69, 120, 105, 116, 67, 111, 100, 101, 58>>
\* "PodInitializing"
strPodInitializing == <<80, 111, 100, 73, 110, 105, 116, 105, 97, 108, 105, 122, 105, 110, 103>>
\* "Completed"
strCompleted == <<67, 111, 109, 112, 108, 101, 116, 101, 100>>
\* "Running"
strRunning == <<82, 117, 110, 110, 105, 110, 103>>
\* "NodeLost"
strNodeLost == <<78, 111, 100, 101, 76, 111, 115, 116>>
\* "Unknown"
strUnknown == <<85, 110, 107, 110, 111, 119, 110>>
\* "Terminating"
strTerminating == <<84, 101, 114, 109, 105, 110, 97, 116, 105, 110, 103>>
\* "Pending"
strPending == <<80, 101, 110, 100, 105, 110, 103>>
\* "Succeeded"
strSucceeded == <<83, 117, 99, 99, 101, 101, 100, 101, 100>>
\* "Failed"
strFailed == <<70, 97, 105, 108, 101, 100>>
\* "CrashLoopBackOff"
strCrashLoopBackOff == <<67, 114, 97, 115, 104, 76, 111, 111, 112, 66, 97, 99, 107, 79, 102, 102>>
\* "Error"
strError == <<69, 114, 114, 111, 114>>
\* "Evicted"
strEvicted == <<69, 118, 105, 99, 116, 101, 100>>
\* "NAMESPACE"
hdrNAMESPACE == <<78, 65, 77, 69, 83, 80, 65, 67, 69>>
\* "NAME"
hdrNAME == <<78, 65, 77, 69>>
\* "IP"
hdrIP == <<73, 80>>
\* "STATUS"
hdrSTATUS == <<83, 84, 65, 84, 85, 83>>
\* "READY"
hdrREADY == <<82, 69, 65, 68, 89>>
\* "RESTARTS"
hdrRESTARTS == <<82, 69, 83, 84, 65, 82, 84, 83>>
\* "NODE"
hdrNODE == <<78, 79, 68, 69>>
\* "AGE"
hdrAGE == <<65, 71, 69>>
\* "LABELS"
hdrLABELS == <<76, 65, 66, 69, 76, 83>>
\* "No pods found in "
strNoPodsFoundIn == <<78, 111, 32, 112, 111, 100, 115, 32, 102, 111, 117, 110, 100, 32, 105, 110, 32>>
\* "all namespaces"
strAllNamespaces == <<97, 108, 108, 32, 110, 97, 109, 101, 115, 112, 97, 99, 101, 115>>
\* " matching selector "
strMatchingSelector == <<32, 109, 97, 116, 99, 104, 105, 110, 103, 32, 115, 101, 108, 101, 99, 116, 111, 114, 32>>
\* "default"
strDefault == <<100, 101, 102, 97, 117, 108, 116>>
\* "\n"
strNewline == <<10>>
\* "/"
strSlash == <<47>>
\* """
strQuote == <<34>>
\* "string"
typeString == <<115, 116, 114, 105, 110, 103>>
\* "kube-system"
nsKubeSystem == <<107, 117, 98, 101, 45, 115, 121, 115, 116, 101, 109>>
\* "web-10"
nameWeb10 == <<119, 101, 98, 45, 49, 48>>
\* "web-9"
nameWeb9 == <<119, 101, 98, 45, 57>>
\* "10.0.0.10"
ip10 == <<49, 48, 46, 48, 46, 48, 46, 49, 48>>
\* "10.0.0.9"
ip9 == <<49, 48, 46, 48, 46, 48, 46, 57>>
\* "worker-1"
nodeWorker1 == <<119, 111, 114, 107, 101, 114, 45, 49>>
\* "app"
keyApp == <<97, 112, 112>>
\* "nginx"
valNginx == <<110, 103, 105, 110, 120>>
\* "tier"
keyTier == <<116, 105, 101, 114>>
\* "web"
valWeb == <<119, 101, 98>>
\* "tier=web,app=nginx"
selTierApp == <<116, 105, 101, 114, 61, 119, 101, 98, 44, 97, 112, 112, 61, 110, 103, 105, 110, 120>>

(***************************************************************************)
(* Go's built-in operations on strings and integers.                       *)
(***************************************************************************)
\* a < b on Go strings: bytewise lexicographic comparison
RECURSIVE StrLess(_, _)
StrLess(a, b) ==
    IF b = <<>> THEN FALSE
    ELSE IF a = <<>> THEN TRUE
    ELSE IF Head(a) # Head(b) THEN Head(a) < Head(b)
    ELSE StrLess(Tail(a), Tail(b))

\* the decimal digits of n >= 0
RECURSIVE Digits(_)
Digits(n) ==
    IF n < 10 THEN <<48 + n>> ELSE Digits(n \div 10) \o <<48 + (n % 10)>>

\* strconv.Itoa and the %d verb
Itoa(n) ==
    IF n < 0 THEN <<45>> \o Digits(-n) ELSE Digits(n)

\* An int32 is held as its two's complement bit pattern, split in two 16-bit
\* halves: the value is hi * 65536 + lo, minus 2^32 when hi >= 32768.
Int32(n) ==
    [hi |-> n \div 65536, lo |-> n % 65536]

\* a + b on int32: the sum wraps around modulo 2^32
AddInt32(a, b) ==
    LET lo == a.lo + b.lo
    IN  [hi |-> (a.hi + b.hi + (lo \div 65536)) % 65536, lo |-> lo % 65536]

\* the bit pattern u read as an unsigned number, divided by ten
Div10(u) ==
    [hi |-> u.hi \div 10, lo |-> ((u.hi % 10) * 65536 + u.lo) \div 10]

Mod10(u) ==
    ((u.hi % 10) * 65536 + u.lo) % 10

\* the decimal digits of the bit pattern u read as an unsigned number
RECURSIVE DigitsU32(_)
DigitsU32(u) ==
    IF u.hi = 0 /\ u.lo < 10 THEN <<48 + u.lo>>
    ELSE DigitsU32(Div10(u)) \o <<48 + Mod10(u)>>

\* strconv.Itoa(int(x)) for an int32 x
ItoaInt32(x) ==
    IF x.hi >= 32768
    THEN <<45>> \o DigitsU32(AddInt32([hi |-> 65535 - x.hi, lo |-> 65535 - x.lo],
                                      Int32(1)))
    ELSE DigitsU32(x)

(***************************************************************************)
(* Field formatters.                                                       *)
(***************************************************************************)
\* duration.HumanDuration on a whole number of seconds
HumanDuration(seconds) ==
    LET minutes == seconds \div 60
        hours   == seconds \div 3600
        s       == seconds % 60
        m       == minutes % 60
        h       == hours % 24
        dy      == (hours \div 24) % 365
    IN  IF seconds < -1 THEN <<60, 105, 110, 118, 97, 108, 105, 100, 62>>
        ELSE IF seconds < 0 THEN <<48, 115>>
        ELSE IF seconds < 120 THEN Itoa(seconds) \o <<115>>
        ELSE IF minutes < 10 THEN
            (IF s = 0 THEN Itoa(minutes) \o <<109>>
             ELSE Itoa(minutes) \o <<109>> \o Itoa(s) \o <<115>>)
        ELSE IF minutes < 180 THEN Itoa(minutes) \o <<109>>
        ELSE IF hours < 8 THEN
            (IF m = 0 THEN Itoa(hours) \o <<104>>
             ELSE Itoa(hours) \o <<104>> \o Itoa(m) \o <<109>>)
        ELSE IF hours < 48 THEN Itoa(hours) \o <<104>>
        ELSE IF hours < 192 THEN
            (IF h = 0 THEN Itoa(hours \div 24) \o <<100>>
             ELSE Itoa(hours \div 24) \o <<100>> \o Itoa(h) \o <<104>>)
        ELSE IF hours < 17520 THEN Itoa(hours \div 24) \o <<100>>
        ELSE IF hours < 70080 THEN
            (IF dy = 0 THEN Itoa((hours \div 24) \div 365) \o <<121>>
             ELSE Itoa((hours \div 24) \div 365) \o <<121>> \o Itoa(dy) \o <<100>>)
        ELSE Itoa((hours \div 24) \div 365) \o <<121>>

\* FormatPodAge; now is the clock time.Since reads, CreationTimestamp 0 is the zero time
FormatPodAge(p, now) ==
    IF p.CreationTimestamp = 0 THEN unknownValue
    ELSE HumanDuration(now - p.CreationTimestamp)

formatInitTerminatedReason(container) ==
    LET t == container.Terminated[1]
    IN  IF t.Reason = <<>> THEN
            IF t.Signal # 0 THEN strInit \o strSignal \o Itoa(t.Signal)
            ELSE strInit \o strExitCode \o Itoa(t.ExitCode)
        ELSE strInit \o t.Reason

\* a loop that counts the init container at hand among the completed ones
RECURSIVE checkInitFromCountsCurrent(_, _)
checkInitFromCountsCurrent(cs, i) ==
    IF i > Len(cs) THEN [reason |-> <<>>, initializing |-> FALSE]
    ELSE LET container == cs[i]
         IN  IF container.Terminated # <<>> /\ container.Terminated[1].ExitCode = 0
             THEN checkInitFromCountsCurrent(cs, i + 1)
             ELSE IF container.Terminated # <<>>
             THEN [reason |-> formatInitTerminatedReason(container), initializing |-> TRUE]
             ELSE IF /\ container.Waiting # <<>>
                     /\ container.Waiting[1].Reason # <<>>
                     /\ container.Waiting[1].Reason # strPodInitializing
             THEN [reason |-> strInit \o container.Waiting[1].Reason, initializing |-> TRUE]
             ELSE [reason |-> strInit \o Itoa(i) \o strSlash \o Itoa(Len(cs)),
                   initializing |-> TRUE]

\* the loop of checkInitContainers from (1-based) index i on; Go's index is i - 1
RECURSIVE checkInitFrom(_, _)
checkInitFrom(cs, i) ==
    IF i > Len(cs) THEN [reason |-> <<>>, initializing |-> FALSE]
    ELSE LET container == cs[i]
         IN  IF container.Terminated # <<>> /\ container.Terminated[1].ExitCode = 0
             THEN checkInitFrom(cs, i + 1)
             ELSE IF container.Terminated # <<>>
             THEN [reason |-> formatInitTerminatedReason(container), initializing |-> TRUE]
             ELSE IF /\ container.Waiting # <<>>
                     /\ container.Waiting[1].Reason # <<>>
                     /\ container.Waiting[1].Reason # strPodInitializing
             THEN [reason |-> strInit \o container.Waiting[1].Reason, initializing |-> TRUE]
             ELSE [reason |-> strInit \o Itoa(i - 1) \o strSlash \o Itoa(Len(cs)),
                   initializing |-> TRUE]

checkInitContainers(p) ==
    checkInitFrom(p.InitContainerStatuses, 1)

formatTerminatedReason(container) ==
    LET t == container.Terminated[1]
    IN  IF t.Signal # 0 THEN strSignal \o Itoa(t.Signal)
        ELSE strExitCode \o Itoa(t.ExitCode)

getContainerReason(container) ==
    IF container.Waiting # <<>> /\ container.Waiting[1].Reason # <<>>
    THEN container.Waiting[1].Reason
    ELSE IF container.Terminated # <<>> /\ container.Terminated[1].Reason # <<>>
    THEN container.Terminated[1].Reason
    ELSE IF container.Terminated # <<>> /\ container.Terminated[1].Reason = <<>>
    THEN formatTerminatedReason(container)
    ELSE <<>>

\* a loop that scans the container statuses from the first to the last, so that
\* a later container overrides an earlier one
RECURSIVE checkMainFromFirstToLast(_, _, _, _)
checkMainFromFirstToLast(cs, i, reason, hasRunning) ==
    IF i < 1 THEN [reason |-> reason, hasRunning |-> hasRunning]
    ELSE LET container == cs[Len(cs) - i + 1]
             newReason == getContainerReason(container)
         IN  checkMainFromFirstToLast(cs, i - 1,
                                      IF newReason # <<>> THEN newReason ELSE reason,
                                      hasRunning \/ (container.Ready /\ container.Running))

\* the loop of checkMainContainers at (1-based) index i, counting down to 1
RECURSIVE checkMainFrom(_, _, _, _)
checkMainFrom(cs, i, reason, hasRunning) ==
    IF i < 1 THEN [reason |-> reason, hasRunning |-> hasRunning]
    ELSE LET container == cs[i]
             newReason == getContainerReason(container)
         IN  checkMainFrom(cs, i - 1,
                           IF newReason # <<>> THEN newReason ELSE reason,
                           hasRunning \/ (container.Ready /\ container.Running))

\* a checkMainContainers that never replaces "Completed"
checkMainContainersKeepsCompleted(p, currentReason) ==
    checkMainFrom(p.ContainerStatuses, Len(p.ContainerStatuses),
                  currentReason, FALSE).reason

checkMainContainers(p, currentReason) ==
    LET r == checkMainFrom(p.ContainerStatuses, Len(p.ContainerStatuses),
                           currentReason, FALSE)
    IN  IF r.reason = strCompleted /\ r.hasRunning THEN strRunning ELSE r.reason

\* a handlePodDeletion that forgets the NodeLost case
handlePodDeletionNoNodeLost(p, reason) ==
    IF p.DeletionTimestamp THEN strTerminating ELSE reason

handlePodDeletion(p, reason) ==
    IF p.DeletionTimestamp
    THEN IF p.Reason = strNodeLost THEN strUnknown ELSE strTerminating
    ELSE reason

FormatPodStatus(p) ==
    LET reason0 == IF p.Reason # <<>> THEN p.Reason ELSE p.Phase
        init    == checkInitContainers(p)
        reason  == IF init.initializing THEN init.reason
                   ELSE checkMainContainers(p, reason0)
    IN  handlePodDeletion(p, reason)

\* the count loop of FormatPodReady
RECURSIVE CountReady(_)
CountReady(cs) ==
    IF cs = <<>> THEN 0
    ELSE (IF Head(cs).Ready THEN 1 ELSE 0) + CountReady(Tail(cs))

FormatPodReady(p) ==
    Itoa(CountReady(p.ContainerStatuses)) \o strSlash \o Itoa(Len(p.ContainerStatuses))

\* the int32 accumulation of FormatRestarts, restarts being the sum so far
RECURSIVE SumRestarts(_, _)
SumRestarts(cs, restarts) ==
    IF cs = <<>> THEN restarts
    ELSE SumRestarts(Tail(cs), AddInt32(restarts, Head(cs).RestartCount))

FormatRestarts(p) ==
    ItoaInt32(SumRestarts(p.ContainerStatuses, Int32(0)))

\* strings.Join(elems, ",")
RECURSIVE Join(_)
Join(elems) ==
    IF elems = <<>> THEN <<>>
    ELSE IF Len(elems) = 1 THEN elems[1]
    ELSE elems[1] \o <<44>> \o Join(Tail(elems))

\* every order in which a range over a map with these keys may visit them
RECURSIVE KeyOrders(_)
KeyOrders(keys) ==
    IF keys = {} THEN {<<>>}
    ELSE UNION {{<<k>> \o rest : rest \in KeyOrders(keys \ {k})} : k \in keys}

\* FormatLabels: Go visits the map in an unspecified order, so every order of the
\* keys is a possible result
FormatLabels(labels) ==
    IF DOMAIN labels = {} THEN {noneValue}
    ELSE {Join([i \in 1..Len(ord) |-> ord[i] \o <<61>> \o labels[ord[i]]]) :
             ord \in KeyOrders(DOMAIN labels)}

GetNodeName(p) ==
    IF p.NodeName # <<>> THEN p.NodeName ELSE noneValue

(***************************************************************************)
(* Extractor and sorter. A (pod, IP) pair holds a pointer to its pod       *)
(* record: here the index of the record in pods.Items.                     *)
(***************************************************************************)
\* the inner loop of extractPodIPsWithPods over pod.Status.PodIPs; st is the
\* pair of podIPs and uniqueIPs so far
RECURSIVE extractSecondary(_, _, _)
extractSecondary(i, ips, st) ==
    IF ips = <<>> THEN st
    ELSE LET ip == Head(ips)
         IN  IF ip # <<>> /\ ip \notin st.uniqueIPs
             THEN extractSecondary(i, Tail(ips),
                      [podIPs    |-> Append(st.podIPs, [pod |-> i, ip |-> ip]),
                       uniqueIPs |-> st.uniqueIPs \cup {ip}])
             ELSE extractSecondary(i, Tail(ips), st)

\* an outer loop that passes over the pods without primary IP altogether
RECURSIVE extractFromSkipsNoPrimary(_, _, _)
extractFromSkipsNoPrimary(items, i, st) ==
    IF i > Len(items) THEN st
    ELSE LET p   == items[i]
             st1 == [podIPs    |-> Append(st.podIPs, [pod |-> i, ip |-> p.PodIP]),
                     uniqueIPs |-> st.uniqueIPs \cup {p.PodIP}]
         IN  IF p.PodIP = <<>>
             THEN extractFromSkipsNoPrimary(items, i + 1, st)
             ELSE extractFromSkipsNoPrimary(items, i + 1,
                                            extractSecondary(i, p.PodIPs, st1))

\* the outer loop of extractPodIPsWithPods from (1-based) index i on
RECURSIVE extractFrom(_, _, _)
extractFrom(items, i, st) ==
    IF i > Len(items) THEN st
    ELSE LET p   == items[i]
             st1 == IF p.PodIP # <<>>
                    THEN [podIPs    |-> Append(st.podIPs, [pod |-> i, ip |-> p.PodIP]),
                          uniqueIPs |-> st.uniqueIPs \cup {p.PodIP}]
                    ELSE st
         IN  extractFrom(items, i + 1, extractSecondary(i, p.PodIPs, st1))

extractPodIPsWithPods(items) ==
    extractFrom(items, 1, [podIPs |-> <<>>, uniqueIPs |-> {}]).podIPs

\* a comparison that orders the pairs by their IP alone
lessByIP(items, a, b) ==
    StrLess(a.ip, b.ip)

\* a comparison that compares the pod name before the namespace
lessNameFirst(items, a, b) ==
    IF items[a.pod].Name # items[b.pod].Name
    THEN StrLess(items[a.pod].Name, items[b.pod].Name)
    ELSE IF items[a.pod].Namespace # items[b.pod].Namespace
    THEN StrLess(items[a.pod].Namespace, items[b.pod].Namespace)
    ELSE StrLess(a.ip, b.ip)

\* a comparison without the final comparison of the IPs
lessWithoutIP(items, a, b) ==
    IF items[a.pod].Namespace # items[b.pod].Namespace
    THEN StrLess(items[a.pod].Namespace, items[b.pod].Namespace)
    ELSE IF items[a.pod].Name # items[b.pod].Name
    THEN StrLess(items[a.pod].Name, items[b.pod].Name)
    ELSE FALSE

\* a comparison by the namespaces alone
lessByNamespace(items, a, b) ==
    StrLess(items[a.pod].Namespace, items[b.pod].Namespace)

\* the less function handed to sort.Slice
less(items, a, b) ==
    IF items[a.pod].Namespace # items[b.pod].Namespace
    THEN StrLess(items[a.pod].Namespace, items[b.pod].Namespace)
    ELSE IF items[a.pod].Name # items[b.pod].Name
    THEN StrLess(items[a.pod].Name, items[b.pod].Name)
    ELSE StrLess(a.ip, b.ip)

InsertAt(s, i, x) ==
    SubSeq(s, 1, i - 1) \o <<x>> \o SubSeq(s, i, Len(s))

\* sort.Slice: the slice is left ordered by less; elements that less does not
\* order may end in any relative order (sort.Slice is not a stable sort), so the
\* result is the set of all orderings of podIPs that less allows
RECURSIVE sortPodIPsWithPods(_, _)
sortPodIPsWithPods(items, podIPs) ==
    IF podIPs = <<>> THEN {<<>>}
    ELSE LET x == podIPs[Len(podIPs)]
             front == SubSeq(podIPs, 1, Len(podIPs) - 1)
         IN  UNION {{InsertAt(s, i, x) :
                        i \in {k \in 1..(Len(s) + 1) :
                                 /\ \A j \in 1..(k - 1) : ~less(items, x, s[j])
                                 /\ \A j \in k..Len(s) : ~less(items, s[j], x)}} :
                    s \in sortPodIPsWithPods(items, front)}

(***************************************************************************)
(* Table builder.                                                          *)
(***************************************************************************)
Column(name, priority) ==
    [Name |-> name, Type |-> typeString, Priority |-> priority]

\* a makeTableHeaders that puts the wide columns after AGE
makeTableHeadersAgeFirst(showNamespace, wide, showLabels) ==
    (IF showNamespace THEN <<Column(hdrNAMESPACE, 0)>> ELSE <<>>)
    \o <<Column(hdrNAME, 0), Column(hdrIP, 0), Column(hdrSTATUS, 0)>>
    \o <<Column(hdrAGE, 0)>>
    \o (IF wide THEN <<Column(hdrREADY, 1), Column(hdrRESTARTS, 1), Column(hdrNODE, 1)>>
        ELSE <<>>)
    \o (IF showLabels THEN <<Column(hdrLABELS, 1)>> ELSE <<>>)

makeTableHeaders(showNamespace, wide, showLabels) ==
    (IF showNamespace THEN <<Column(hdrNAMESPACE, 0)>> ELSE <<>>)
    \o <<Column(hdrNAME, 0), Column(hdrIP, 0), Column(hdrSTATUS, 0)>>
    \o (IF wide THEN <<Column(hdrREADY, 1), Column(hdrRESTARTS, 1), Column(hdrNODE, 1)>>
        ELSE <<>>)
    \o <<Column(hdrAGE, 0)>>
    \o (IF showLabels THEN <<Column(hdrLABELS, 1)>> ELSE <<>>)

\* makeTableRow: the rows it may return, one for each order FormatLabels may
\* visit the labels in
makeTableRow(p, ip, showNamespace, wide, showLabels, now) ==
    LET row == (IF showNamespace THEN <<p.Namespace>> ELSE <<>>)
               \o <<p.Name, ip, FormatPodStatus(p)>>
               \o (IF wide THEN <<FormatPodReady(p), FormatRestarts(p), GetNodeName(p)>>
                   ELSE <<>>)
               \o <<FormatPodAge(p, now)>>
    IN  IF showLabels THEN {row \o <<l>> : l \in FormatLabels(p.Labels)}
        ELSE {row}

\* the row loop of generateTable over the sorted pairs
RECURSIVE tableRows(_, _, _, _, _, _)
tableRows(items, podIPs, showNamespace, wide, showLabels, now) ==
    IF podIPs = <<>> THEN {<<>>}
    ELSE LET item == Head(podIPs)
         IN  {<<[Cells |-> cells, Object |-> item.pod]>> \o rest :
                 cells \in makeTableRow(items[item.pod], item.ip,
                                        showNamespace, wide, showLabels, now),
                 rest \in tableRows(items, Tail(podIPs),
                                    showNamespace, wide, showLabels, now)}

\* generateTable: every result it may return, with the extractor's and the
\* sorter's results it was built from
generateTable(items, showNamespace, wide, showLabels, now) ==
    LET podIPs == extractPodIPsWithPods(items)
    IN  UNION {{[podIPList  |-> podIPs,
                 sortedList |-> sorted,
                 table      |-> [ColumnDefinitions |->
                                     makeTableHeaders(showNamespace, wide, showLabels),
                                 Rows |-> rows]] :
                    rows \in tableRows(items, sorted, showNamespace, wide, showLabels, now)} :
                  sorted \in sortPodIPsWithPods(items, podIPs)}

(***************************************************************************)
(* Printers.                                                               *)
(***************************************************************************)
\* a createPrinter that has no printer for the name format
createPrinterWithoutName(outputFormat, noHeaders, showNamespace) ==
    IF outputFormat = jsonFormat
    THEN [printer |-> "json", noHeaders |-> FALSE, showNamespace |-> FALSE, err |-> "nil"]
    ELSE IF outputFormat = yamlFormat
    THEN [printer |-> "yaml", noHeaders |-> FALSE, showNamespace |-> FALSE, err |-> "nil"]
    ELSE IF outputFormat \in {tableFormat, wideFormat, <<>>}
    THEN [printer |-> "table", noHeaders |-> noHeaders, showNamespace |-> FALSE,
          err |-> "nil"]
    ELSE [printer |-> "none", noHeaders |-> FALSE, showNamespace |-> FALSE,
          err |-> "ErrUnsupportedFormat"]

\* createPrinter: the printer chosen, or the error
createPrinter(outputFormat, noHeaders, showNamespace) ==
    IF outputFormat = jsonFormat
    THEN [printer |-> "json", noHeaders |-> FALSE, showNamespace |-> FALSE, err |-> "nil"]
    ELSE IF outputFormat = yamlFormat
    THEN [printer |-> "yaml", noHeaders |-> FALSE, showNamespace |-> FALSE, err |-> "nil"]
    ELSE IF outputFormat = nameFormat
    THEN [printer |-> "name", noHeaders |-> FALSE, showNamespace |-> showNamespace,
          err |-> "nil"]
    ELSE IF outputFormat \in {tableFormat, wideFormat, <<>>}
    THEN [printer |-> "table", noHeaders |-> noHeaders, showNamespace |-> FALSE,
          err |-> "nil"]
    ELSE [printer |-> "none", noHeaders |-> FALSE, showNamespace |-> FALSE,
          err |-> "ErrUnsupportedFormat"]

\* a name printer that prints the first cell of every row, with or without
\* the namespace column
RECURSIVE namePrinterPrintObjFirstCell(_, _)
namePrinterPrintObjFirstCell(rows, showNamespace) ==
    IF rows = <<>> THEN <<>>
    ELSE <<Head(rows).Cells[1] \o strNewline>>
         \o namePrinterPrintObjFirstCell(Tail(rows), showNamespace)

\* namePrinter.PrintObj: the chunks it writes, one Fprintf each
RECURSIVE namePrinterPrintObj(_, _)
namePrinterPrintObj(rows, showNamespace) ==
    IF rows = <<>> THEN <<>>
    ELSE LET cells == Head(rows).Cells
             rest  == namePrinterPrintObj(Tail(rows), showNamespace)
         IN  IF Len(cells) < 2 THEN rest
             ELSE IF showNamespace /\ Len(cells) > 0
             THEN <<cells[1] \o strSlash \o cells[2] \o strNewline>> \o rest
             ELSE IF Len(cells) > 0
             THEN <<cells[1] \o strNewline>> \o rest
             ELSE rest

\* ipOnlyPrinter.PrintObj: every result it may produce: the extractor's and the
\* sorter's results and the chunks written, one Fprintf each
ipOnlyPrinterPrintObj(items) ==
    LET podIPs == extractPodIPsWithPods(items)
    IN  {[podIPList  |-> podIPs,
          sortedList |-> sorted,
          lines      |-> [i \in 1..Len(sorted) |-> sorted[i].ip \o strNewline]] :
            sorted \in sortPodIPsWithPods(items, podIPs)}

(***************************************************************************)
(* Label selectors: labels.Parse, Selector.String and the matching the     *)
(* API server does, for selectors made of key=value requirements.          *)
(***************************************************************************)
IndexOf(s, c) ==
    IF \E i \in 1..Len(s) : s[i] = c
    THEN CHOOSE i \in 1..Len(s) : s[i] = c /\ \A j \in 1..(i - 1) : s[j] # c
    ELSE 0

\* strings.Split on one separator byte
RECURSIVE Split(_, _)
Split(s, sep) ==
    LET i == IndexOf(s, sep)
    IN  IF i = 0 THEN <<s>>
        ELSE <<SubSeq(s, 1, i - 1)>> \o Split(SubSeq(s, i + 1, Len(s)), sep)

\* insertion of a requirement into a list ordered by key
RECURSIVE InsertByKey(_, _)
InsertByKey(reqs, r) ==
    IF reqs = <<>> THEN <<r>>
    ELSE IF StrLess(r.key, Head(reqs).key) THEN <<r>> \o reqs
    ELSE <<Head(reqs)>> \o InsertByKey(Tail(reqs), r)

RECURSIVE SortByKey(_)
SortByKey(reqs) ==
    IF reqs = <<>> THEN <<>>
    ELSE InsertByKey(SortByKey(Tail(reqs)), Head(reqs))

\* labels.Parse: the requirements of the selector, ordered by key
ParseSelector(sel) ==
    LET parts == Split(sel, 44)
    IN  SortByKey([i \in 1..Len(parts) |->
                      LET kv == Split(parts[i], 61)
                      IN  [key |-> kv[1], value |-> kv[2]]])

\* Selector.String
SelectorString(sel) ==
    LET reqs == ParseSelector(sel)
    IN  Join([i \in 1..Len(reqs) |-> reqs[i].key \o <<61>> \o reqs[i].value])

\* whether a pod with these labels is listed under ListOptions.LabelSelector sel
MatchesSelector(labels, sel) ==
    \/ sel = <<>>
    \/ LET reqs == ParseSelector(sel)
       IN  \A i \in 1..Len(reqs) :
               /\ reqs[i].key \in DOMAIN labels
               /\ labels[reqs[i].key] = reqs[i].value

(***************************************************************************)
(* The command: Complete, Validate, Run.                                   *)
(***************************************************************************)
\* a Complete in which --namespace wins over --all-namespaces
CompleteNamespaceWins(opts) ==
    LET ns1 == opts.nsFlag
        ns2 == IF ns1 = <<>> /\ ~opts.allNamespaces
               THEN IF opts.configNamespace # <<>> /\ opts.configNamespace[1] # <<>>
                    THEN opts.configNamespace[1]
                    ELSE strDefault
               ELSE ns1
    IN  [opts EXCEPT !.namespace = ns2]

\* Complete: the options after it. opts.nsFlag is what GetString("namespace")
\* returns: the flag is registered as a string flag by configFlags.AddFlags, so
\* the read does not fail. opts.configNamespace is o.configFlags.Namespace
Complete(opts) ==
    LET ns0 == opts.nsFlag
        ns1 == IF opts.allNamespaces THEN <<>> ELSE ns0
        ns2 == IF ns1 = <<>> /\ ~opts.allNamespaces
               THEN IF opts.configNamespace # <<>> /\ opts.configNamespace[1] # <<>>
                    THEN opts.configNamespace[1]
                    ELSE strDefault
               ELSE ns1
    IN  [opts EXCEPT !.namespace = ns2]

\* a Validate without the default case
ValidateAcceptsAll(opts) ==
    "nil"

\* Validate: the error it returns
Validate(opts) ==
    IF opts.outputFormat \in {tableFormat, wideFormat, jsonFormat, yamlFormat,
                              nameFormat, <<>>}
    THEN "nil"
    ELSE "ErrUnsupportedFormat"

\* getPods on a cluster holding the pods of cluster: the pods listed
getPods(opts, cluster) ==
    SelectSeq(cluster,
              LAMBDA p : /\ opts.allNamespaces \/ p.Namespace = opts.namespace
                         /\ MatchesSelector(p.Labels, opts.labelSelector))

\* the %q verb, for strings that need no escaping
Quote(s) ==
    strQuote \o s \o strQuote

\* a printNoPodsFound that leaves the selector out
printNoPodsFoundNoSelector(opts) ==
    strNoPodsFoundIn
    \o (IF opts.namespace = <<>> THEN strAllNamespaces ELSE opts.namespace)
    \o strNewline

\* printNoPodsFound: the chunk it writes
printNoPodsFound(opts) ==
    LET namespace == IF opts.namespace = <<>> THEN strAllNamespaces ELSE opts.namespace
        selectorInfo == IF opts.labelSelector # <<>>
                        THEN strMatchingSelector \o Quote(SelectorString(opts.labelSelector))
                        ELSE <<>>
    IN  strNoPodsFoundIn \o namespace \o selectorInfo \o strNewline

NoTable ==
    [ColumnDefinitions |-> <<>>, Rows |-> <<>>]

RunResult(e, lines, prints, podIPs, sorted, tbl) ==
    [err |-> e, lines |-> lines, printed |-> prints,
     podIPList |-> podIPs, sortedList |-> sorted, table |-> tbl]

\* Run after a successful getPods that listed items: every result it may have
RunOnPods(opts, items, now) ==
    IF opts.showIPsOnly
    THEN {RunResult("nil", r.lines, <<>>, r.podIPList, r.sortedList, NoTable) :
             r \in ipOnlyPrinterPrintObj(items)}
    ELSE IF Len(items) = 0
    THEN {RunResult("nil", <<printNoPodsFound(opts)>>, <<>>, <<>>, <<>>, NoTable)}
    ELSE {IF Len(g.table.Rows) = 0
          THEN RunResult("nil", <<printNoPodsFound(opts)>>, <<>>,
                         g.podIPList, g.sortedList, g.table)
          ELSE LET pr == createPrinter(opts.outputFormat, opts.noHeaders,
                                       opts.allNamespaces)
               IN  IF pr.err # "nil"
                   THEN RunResult(pr.err, <<>>, <<>>, g.podIPList, g.sortedList, g.table)
                   ELSE IF pr.printer = "name"
                   THEN RunResult("nil",
                                  namePrinterPrintObj(g.table.Rows, pr.showNamespace),
                                  <<>>, g.podIPList, g.sortedList, g.table)
                   ELSE RunResult("nil", <<>>,
                                  <<[printer |-> pr.printer, noHeaders |-> pr.noHeaders,
                                     obj |-> g.table]>>,
                                  g.podIPList, g.sortedList, g.table) :
             g \in generateTable(items, opts.allNamespaces,
                                 opts.outputFormat = wideFormat, opts.showLabels, now)}

\* what a library printer returns when its write to the stream fails: the json
\* and yaml printers return the error of Fprintln and Fprint; the table printer
\* of cli-runtime is not part of this repository, it may return the error or nil
PrintObjErrors(printer) ==
    IF printer \in {"json", "yaml"} THEN {"failed to print object"}
    ELSE {"failed to print object", "nil"}

\* Run on a stream whose writes fail or not: on a failing stream nothing reaches
\* the stream; the Fprintf calls of printNoPodsFound, namePrinter and
\* ipOnlyPrinter drop the error, Run wraps the error a library printer returns
RunOnStream(opts, items, now, fails) ==
    IF ~fails
    THEN {r @@ [writeFailed |-> FALSE] : r \in RunOnPods(opts, items, now)}
    ELSE UNION {{[err |-> e, lines |-> <<>>, printed |-> <<>>,
                  podIPList |-> r.podIPList, sortedList |-> r.sortedList,
                  table |-> r.table,
                  writeFailed |-> (r.lines # <<>> \/ r.printed # <<>>)] :
                    e \in IF r.printed # <<>> THEN PrintObjErrors(r.printed[1].printer)
                          ELSE {r.err}} :
                r \in RunOnPods(opts, items, now)}

\* main: the exit status of the process for the error Execute returned
ExitStatus(e) ==
    IF e # "nil" THEN 1 ELSE 0

(***************************************************************************)
(* Inputs: pod records, pod lists, options.                                *)
(***************************************************************************)
\* what time.Since reads the clock as, in seconds
Clock == 10000

SeqsUpTo(S, n) ==
    UNION {[1..k -> S] : k \in 0..n}

Waiting(reason) ==
    [Waiting |-> <<[Reason |-> reason]>>, Running |-> FALSE, Terminated |-> <<>>,
     Ready |-> FALSE, RestartCount |-> Int32(1)]

RunningReady ==
    [Waiting |-> <<>>, Running |-> TRUE, Terminated |-> <<>>,
     Ready |-> TRUE, RestartCount |-> Int32(0)]

Terminated(reason, signal, exitCode) ==
    [Waiting |-> <<>>, Running |-> FALSE,
     Terminated |-> <<[Reason |-> reason, Signal |-> signal, ExitCode |-> exitCode]>>,
     Ready |-> FALSE, RestartCount |-> Int32(2)]

\* a container that runs and is not ready yet
RunningNotReady ==
    [Waiting |-> <<>>, Running |-> TRUE, Terminated |-> <<>>,
     Ready |-> FALSE, RestartCount |-> Int32(0)]

\* the states of a main container
ContainerStates ==
    {Waiting(strCrashLoopBackOff), Waiting(strPodInitializing), RunningReady,
     RunningNotReady,
     Terminated(strCompleted, 0, 0), Terminated(<<>>, 9, 137), Terminated(<<>>, 0, 2)}

\* the states of an init container
InitContainerStates ==
    {Waiting(strCrashLoopBackOff), Waiting(strPodInitializing), RunningNotReady,
     Terminated(strCompleted, 0, 0), Terminated(strError, 0, 1),
     Terminated(<<>>, 9, 137), Terminated(<<>>, 0, 2)}

\* a running pod on a node, created two hours ago, with two labels
ProfileA ==
    [DeletionTimestamp |-> FALSE, CreationTimestamp |-> Clock - 7200,
     Labels |-> (keyApp :> valNginx) @@ (keyTier :> valWeb),
     NodeName |-> nodeWorker1, Phase |-> strRunning, Reason |-> <<>>,
     InitContainerStatuses |-> <<>>, ContainerStatuses |-> <<RunningReady>>]

\* a running pod with one label, one container of two ready and three restarts
ProfileC ==
    [DeletionTimestamp |-> FALSE, CreationTimestamp |-> Clock - 90,
     Labels |-> (keyApp :> valNginx),
     NodeName |-> nodeWorker1, Phase |-> strRunning, Reason |-> <<>>,
     InitContainerStatuses |-> <<Terminated(strCompleted, 0, 0)>>,
     ContainerStatuses |-> <<RunningReady, Waiting(strCrashLoopBackOff),
                             Terminated(strError, 0, 1)>>]

\* an unscheduled pod being deleted, with no creation time and no labels
ProfileB ==
    [DeletionTimestamp |-> TRUE, CreationTimestamp |-> 0,
     Labels |-> <<>>,
     NodeName |-> <<>>, Phase |-> strPending, Reason |-> <<>>,
     InitContainerStatuses |-> <<Waiting(strCrashLoopBackOff)>>,
     ContainerStatuses |-> <<>>]

\* the pods' namespaces and names: "web-10" < "web-9" and "default" < "kube-system"
Identities ==
    {[Namespace |-> strDefault, Name |-> nameWeb10] @@ ProfileA,
     [Namespace |-> strDefault, Name |-> nameWeb9] @@ ProfileC,
     [Namespace |-> nsKubeSystem, Name |-> nameWeb10] @@ ProfileB}

\* status.podIP and status.podIPs: none, single-stack, primary only, dual-stack,
\* a list with an empty entry and a repeated one, a list without primary
IPConfigs ==
    {[PodIP |-> <<>>, PodIPs |-> <<>>],
     [PodIP |-> ip9,  PodIPs |-> <<ip9>>],
     [PodIP |-> ip10, PodIPs |-> <<>>],
     [PodIP |-> ip10, PodIPs |-> <<ip10, ip9>>],
     [PodIP |-> ip9,  PodIPs |-> <<<<>>, ip10, ip10>>],
     [PodIP |-> <<>>, PodIPs |-> <<ip9>>]}

TablePods ==
    {id @@ cfg : id \in Identities, cfg \in IPConfigs}

\* the pods a cluster may hold: each without IP yet or single-stack, web-10 at
\* 10.0.0.9 and web-9 at 10.0.0.10
ClusterPods ==
    {p \in TablePods :
        \/ p.PodIP = <<>> /\ p.PodIPs = <<>>
        \/ p.Name = nameWeb10 /\ p.PodIP = ip9 /\ p.PodIPs = <<ip9>>
        \/ p.Name = nameWeb9 /\ p.PodIP = ip10 /\ p.PodIPs = <<>>}

\* the pods handed to FormatPodStatus that have the init container statuses ics:
\* deleted or not, every status.reason and phase, up to MaxContainers main
\* container statuses and MaxStatuses statuses together with the init ones
StatusPods(ics) ==
    {[Namespace |-> strDefault, Name |-> nameWeb10, PodIP |-> ip9, PodIPs |-> <<ip9>>,
      CreationTimestamp |-> 0, Labels |-> <<>>, NodeName |-> <<>>,
      DeletionTimestamp |-> d, Reason |-> r, Phase |-> ph,
      InitContainerStatuses |-> ics, ContainerStatuses |-> cs] :
        d \in BOOLEAN, r \in {<<>>, strNodeLost, strEvicted},
        ph \in {strPending, strSucceeded},
        cs \in SeqsUpTo(ContainerStates,
                        IF MaxStatuses - Len(ics) < MaxContainers
                        THEN MaxStatuses - Len(ics) ELSE MaxContainers)}

NoPod ==
    [Namespace |-> <<>>, Name |-> <<>>] @@ [PodIP |-> <<>>, PodIPs |-> <<>>] @@ ProfileB

\* the options after flag parsing; --namespace is bound to configFlags.Namespace
Options ==
    {[allNamespaces |-> a, labelSelector |-> l, showIPsOnly |-> s, namespace |-> <<>>,
      outputFormat |-> f, noHeaders |-> h, showLabels |-> sl,
      nsFlag |-> n, configNamespace |-> <<n>>] :
        a \in BOOLEAN, l \in {<<>>, selTierApp}, s \in BOOLEAN,
        f \in {tableFormat, wideFormat, jsonFormat, yamlFormat, nameFormat, <<>>,
               invalidFormat},
        h \in BOOLEAN, sl \in BOOLEAN, n \in {<<>>, nsKubeSystem}}

NoFlags ==
    [showNamespace |-> FALSE, wide |-> FALSE, showLabels |-> FALSE]

GetPodsErrors ==
    {"failed to get REST config", "failed to create kubernetes client",
     "failed to list pods"}

(***************************************************************************)
(* The command: RunE calls Complete, Validate and Run.                     *)
(***************************************************************************)
Init ==
    /\ pc = "Complete"
    /\ o \in Options
    /\ err = "nil"
    /\ out = <<>>
    /\ printed = <<>>
    /\ queries = 0
    /\ calls = <<>>
    /\ pods = <<>>
    /\ podIPList = <<>>
    /\ sortedList = <<>>
    /\ table = NoTable
    /\ pod = NoPod
    /\ status = <<>>
    /\ outFails = FALSE
    /\ writeFailed = FALSE

CompleteStep ==
    /\ pc = "Complete"
    /\ calls' = Append(calls, "Complete")
    /\ o' = Complete(o)
    /\ pc' = "Validate"
    /\ UNCHANGED <<err, out, printed, queries, pods, podIPList, sortedList, table,
                   pod, status, outFails, writeFailed>>

ValidateStep ==
    /\ pc = "Validate"
    /\ calls' = Append(calls, "Validate")
    /\ err' = Validate(o)
    /\ pc' = IF Validate(o) = "nil" THEN "Run" ELSE "done"
    /\ UNCHANGED <<o, out, printed, queries, pods, podIPList, sortedList, table,
                   pod, status, outFails, writeFailed>>

RunStep ==
    /\ pc = "Run"
    /\ calls' = Append(calls, "Run")
    /\ queries' = queries + 1
    /\ pc' = "done"
    /\ \/ /\ \E e \in GetPodsErrors : err' = e
          /\ UNCHANGED <<out, printed, pods, podIPList, sortedList, table, writeFailed>>
       \/ \E cluster \in SeqsUpTo(ClusterPods, MaxClusterPods) :
              \E r \in RunOnStream(o, getPods(o, cluster), Clock, outFails) :
                  /\ pods' = getPods(o, cluster)
                  /\ err' = r.err
                  /\ out' = out \o r.lines
                  /\ printed' = printed \o r.printed
                  /\ podIPList' = r.podIPList
                  /\ sortedList' = r.sortedList
                  /\ table' = r.table
                  /\ writeFailed' = r.writeFailed
    /\ UNCHANGED <<o, pod, status, outFails>>

Next ==
    CompleteStep \/ ValidateStep \/ RunStep

Spec ==
    Init /\ [][Next]_vars

(***************************************************************************)
(* generateTable called on a pod list, with every combination of flags.    *)
(***************************************************************************)
InitTable ==
    /\ pc = "generateTable"
    /\ pods \in SeqsUpTo(TablePods, MaxPods)
    /\ o = NoFlags
    /\ err = "nil"
    /\ out = <<>>
    /\ printed = <<>>
    /\ queries = 0
    /\ calls = <<>>
    /\ podIPList = <<>>
    /\ sortedList = <<>>
    /\ table = NoTable
    /\ pod = NoPod
    /\ status = <<>>
    /\ outFails = FALSE
    /\ writeFailed = FALSE

GenerateTableStep ==
    /\ pc = "generateTable"
    /\ \E showNamespace \in BOOLEAN, wide \in BOOLEAN, showLabels \in BOOLEAN :
           \E g \in generateTable(pods, showNamespace, wide, showLabels, Clock) :
               /\ o' = [showNamespace |-> showNamespace, wide |-> wide,
                        showLabels |-> showLabels]
               /\ podIPList' = g.podIPList
               /\ sortedList' = g.sortedList
               /\ table' = g.table
    /\ pc' = "done"
    /\ UNCHANGED <<err, out, printed, queries, calls, pods, pod, status, outFails,
                   writeFailed>>

NextTable ==
    GenerateTableStep

SpecTable ==
    InitTable /\ [][NextTable]_vars

(***************************************************************************)
(* FormatPodStatus called on a pod.                                        *)
(***************************************************************************)
InitStatus ==
    /\ pc = "FormatPodStatus"
    /\ \E ics \in SeqsUpTo(InitContainerStates, MaxInit) : pod \in StatusPods(ics)
    /\ o = NoFlags
    /\ err = "nil"
    /\ out = <<>>
    /\ printed = <<>>
    /\ queries = 0
    /\ calls = <<>>
    /\ pods = <<>>
    /\ podIPList = <<>>
    /\ sortedList = <<>>
    /\ table = NoTable
    /\ status = <<>>
    /\ outFails = FALSE
    /\ writeFailed = FALSE

FormatPodStatusStep ==
    /\ pc = "FormatPodStatus"
    /\ status' = FormatPodStatus(pod)
    /\ pc' = "done"
    /\ UNCHANGED <<o, err, out, printed, queries, calls, pods, podIPList, sortedList,
                   table, pod, outFails, writeFailed>>

NextStatus ==
    FormatPodStatusStep

SpecStatus ==
    InitStatus /\ [][NextStatus]_vars

(***************************************************************************)
(* sortPodIPsWithPods called on the extractor's result, then called again  *)
(* on its own result or on the same input.                                 *)
(***************************************************************************)
InitSort ==
    /\ pc = "sort"
    /\ pods \in SeqsUpTo(TablePods, MaxPods)
    /\ podIPList = extractPodIPsWithPods(pods)
    /\ o = NoFlags
    /\ err = "nil"
    /\ out = <<>>
    /\ printed = <<>>
    /\ queries = 0
    /\ calls = <<>>
    /\ sortedList = <<>>
    /\ table = NoTable
    /\ pod = NoPod
    /\ status = <<>>
    /\ outFails = FALSE
    /\ writeFailed = FALSE

\* the first call, on the extractor's result
SortStep ==
    /\ pc = "sort"
    /\ sortedList' \in sortPodIPsWithPods(pods, podIPList)
    /\ pc' = "sorted"
    /\ UNCHANGED <<o, err, out, printed, queries, calls, pods, podIPList, table, pod,
                   status, outFails, writeFailed>>

\* a second call, on the result of the first
SortSortedStep ==
    /\ pc = "sorted"
    /\ sortedList' \in sortPodIPsWithPods(pods, sortedList)
    /\ pc' = "sortedTwice"
    /\ UNCHANGED <<o, err, out, printed, queries, calls, pods, podIPList, table, pod,
                   status, outFails, writeFailed>>

\* a second call, on the input of the first
SortAgainStep ==
    /\ pc = "sorted"
    /\ sortedList' \in sortPodIPsWithPods(pods, podIPList)
    /\ pc' = "sortedAgain"
    /\ UNCHANGED <<o, err, out, printed, queries, calls, pods, podIPList, table, pod,
                   status, outFails, writeFailed>>

NextSort ==
    SortStep \/ SortSortedStep \/ SortAgainStep

SpecSort ==
    InitSort /\ [][NextSort]_vars

(***************************************************************************)
(* FormatRestarts called on a pod.                                         *)
(***************************************************************************)
\* restart counts of a container: small ones, around 2^16, 2^30 and 2^31 - 1
RestartCounts ==
    {Int32(0), Int32(1), Int32(3), Int32(65535), Int32(65536),
     [hi |-> 16384, lo |-> 0], [hi |-> 32767, lo |-> 65535]}

RestartPods ==
    {[Namespace |-> strDefault, Name |-> nameWeb10, PodIP |-> ip9, PodIPs |-> <<ip9>>,
      CreationTimestamp |-> 0, Labels |-> <<>>, NodeName |-> <<>>,
      DeletionTimestamp |-> FALSE, Reason |-> <<>>, Phase |-> strRunning,
      InitContainerStatuses |-> <<>>,
      ContainerStatuses |-> [k \in 1..Len(counts) |->
                                [RunningReady EXCEPT !.RestartCount = counts[k]]]] :
        counts \in SeqsUpTo(RestartCounts, MaxContainers)}

InitRestarts ==
    /\ pc = "FormatRestarts"
    /\ pod \in RestartPods
    /\ o = NoFlags
    /\ err = "nil"
    /\ out = <<>>
    /\ printed = <<>>
    /\ queries = 0
    /\ calls = <<>>
    /\ pods = <<>>
    /\ podIPList = <<>>
    /\ sortedList = <<>>
    /\ table = NoTable
    /\ status = <<>>
    /\ outFails = FALSE
    /\ writeFailed = FALSE

FormatRestartsStep ==
    /\ pc = "FormatRestarts"
    /\ status' = FormatRestarts(pod)
    /\ pc' = "done"
    /\ UNCHANGED <<o, err, out, printed, queries, calls, pods, podIPList, sortedList,
                   table, pod, outFails, writeFailed>>

NextRestarts ==
    FormatRestartsStep

SpecRestarts ==
    InitRestarts /\ [][NextRestarts]_vars

(***************************************************************************)
(* The command on an output stream whose writes may fail.                  *)
(***************************************************************************)
InitIO ==
    /\ pc = "Complete"
    /\ o \in Options
    /\ err = "nil"
    /\ out = <<>>
    /\ printed = <<>>
    /\ queries = 0
    /\ calls = <<>>
    /\ pods = <<>>
    /\ podIPList = <<>>
    /\ sortedList = <<>>
    /\ table = NoTable
    /\ pod = NoPod
    /\ status = <<>>
    /\ outFails \in BOOLEAN
    /\ writeFailed = FALSE

SpecIO ==
    InitIO /\ [][Next]_vars

(***************************************************************************)
(* Properties.                                                             *)
(***************************************************************************)
Done == pc = "done"

\* the non-empty IP values of a pod record: its primary IP and its secondary list
PodIPSet(p) ==
    ({p.PodIP} \cup {p.PodIPs[k] : k \in 1..Len(p.PodIPs)}) \ {<<>>}

\* the (namespace, pod name, IP) key of a pair
PairKey(x) ==
    <<pods[x.pod].Namespace, pods[x.pod].Name, x.ip>>

\* k1 <= k2 on keys: by namespace, then name, then IP, each as a string
KeyLeq(k1, k2) ==
    \/ StrLess(k1[1], k2[1])
    \/ /\ k1[1] = k2[1]
       /\ \/ StrLess(k1[2], k2[2])
          \/ /\ k1[2] = k2[2]
             /\ ~StrLess(k2[3], k1[3])

\* the indexes of the pairs of pod i in the extractor's result
PairsOf(i) ==
    {k \in 1..Len(podIPList) : podIPList[k].pod = i}

\* C1: every non-empty IP of every pod of the list is in a pair with that pod,
\* also when another pod of the list carries the same IP.
C1_EveryIPOfEveryPodHasAPair ==
    Done =>
        \A i \in 1..Len(pods) : \A ip \in PodIPSet(pods[i]) :
            \E k \in PairsOf(i) : podIPList[k].ip = ip

\* the IP cell of row k of the table
RowIP(k) ==
    table.Rows[k].Cells[IF o.showNamespace THEN 3 ELSE 2]

RowKey(k) ==
    <<pods[table.Rows[k].Object].Namespace, pods[table.Rows[k].Object].Name, RowIP(k)>>

\* C2: the rows of the table generateTable built are in non-decreasing order of
\* (pod namespace, pod name, IP), for every pod list and flag combination.
C2_RowsInKeyOrder ==
    Done =>
        \A k \in 1..(Len(table.Rows) - 1) : KeyLeq(RowKey(k), RowKey(k + 1))

\* three rows or more, of two namespaces, that the extractor did not yield in order
C2_Witness ==
    /\ Done
    /\ Len(table.Rows) >= 3
    /\ \E k \in 1..Len(table.Rows) : RowKey(k)[1] # RowKey(1)[1]
    /\ \E k \in 1..(Len(podIPList) - 1) :
           ~KeyLeq(PairKey(podIPList[k]), PairKey(podIPList[k + 1]))

\* C3: a pod with a primary IP gets exactly one pair for each distinct non-empty
\* IP of its primary IP and secondary list, the pair of the primary IP first.
C3_OnePairPerDistinctIPPrimaryFirst ==
    Done =>
        \A i \in 1..Len(pods) :
            pods[i].PodIP # <<>> =>
                /\ {podIPList[k].ip : k \in PairsOf(i)} = PodIPSet(pods[i])
                /\ Cardinality(PairsOf(i)) = Cardinality(PodIPSet(pods[i]))
                /\ \A k \in PairsOf(i) :
                       (\A j \in PairsOf(i) : k <= j) => podIPList[k].ip = pods[i].PodIP

\* what C3 states, for the pods none of whose IPs an earlier pod of the list has:
\* the pairs of such a pod are as C3 says
C3_HoldsWhenNoEarlierPodHasTheIP ==
    Done =>
        \A i \in 1..Len(pods) :
            (/\ pods[i].PodIP # <<>>
             /\ \A j \in 1..(i - 1) : PodIPSet(pods[j]) \cap PodIPSet(pods[i]) = {}) =>
                /\ {podIPList[k].ip : k \in PairsOf(i)} = PodIPSet(pods[i])
                /\ Cardinality(PairsOf(i)) = Cardinality(PodIPSet(pods[i]))
                /\ \A k \in PairsOf(i) :
                       (\A j \in PairsOf(i) : k <= j) => podIPList[k].ip = pods[i].PodIP

\* the output formats the command supports
SupportedFormats ==
    {tableFormat, wideFormat, jsonFormat, yamlFormat, nameFormat, <<>>}

IsPrefix(s, t) ==
    Len(s) <= Len(t) /\ SubSeq(t, 1, Len(s)) = s

\* C4: Complete, Validate and Run are called in this order, Run only for a
\* supported output format; with an unsupported format the command ends with
\* the unsupported-format error of Validate and no cluster query is made.
C4_UnsupportedFormatFailsBeforeQuery ==
    /\ IsPrefix(calls, <<"Complete", "Validate", "Run">>)
    /\ (\E k \in 1..Len(calls) : calls[k] = "Run") => o.outputFormat \in SupportedFormats
    /\ queries > 0 => o.outputFormat \in SupportedFormats
    /\ (Done /\ o.outputFormat \notin SupportedFormats) =>
           /\ err = "ErrUnsupportedFormat"
           /\ calls = <<"Complete", "Validate">>
           /\ out = <<>> /\ printed = <<>>

\* the command ended on an unsupported format with --show-ips-only set
C4_Witness ==
    /\ Done
    /\ o.outputFormat = invalidFormat
    /\ o.showIPsOnly
    /\ err = "ErrUnsupportedFormat"
    /\ queries = 0

\* Run has ended and its cluster query succeeded
QuerySucceeded ==
    Done /\ queries = 1 /\ err \notin GetPodsErrors

\* "app=nginx,tier=web"
selAppTier == <<97, 112, 112, 61, 110, 103, 105, 110, 120, 44, 116, 105, 101, 114, 61, 119, 101, 98>>

\* C5: with zero pods listed, Run writes exactly the line
\* "No pods found in <namespace>" and returns no error, whatever the flags.
C5_NoPodsLineForEveryFlagCombination ==
    (QuerySucceeded /\ Len(pods) = 0) =>
        /\ err = "nil"
        /\ out = <<strNoPodsFoundIn
                   \o (IF o.allNamespaces THEN strAllNamespaces ELSE o.namespace)
                   \o strNewline>>

\* what Run does with zero pods listed: it returns no error; with --show-ips-only
\* it writes nothing; otherwise it writes exactly one line, "No pods found in
\* <namespace>" ("all namespaces" with --all-namespaces), followed by
\* ' matching selector "<selector>"' when a label selector is set, the selector
\* in the string form of its parse.
C5_NoPodsLineUnlessIPsOnly ==
    (QuerySucceeded /\ Len(pods) = 0) =>
        /\ err = "nil"
        /\ printed = <<>>
        /\ out = IF o.showIPsOnly THEN <<>>
                 ELSE <<strNoPodsFoundIn
                        \o (IF o.allNamespaces THEN strAllNamespaces ELSE o.namespace)
                        \o (IF o.labelSelector = selTierApp
                            THEN strMatchingSelector \o strQuote \o selAppTier \o strQuote
                            ELSE <<>>)
                        \o strNewline>>

\* zero pods listed in all namespaces under a selector: the line names the selector
C5_Witness ==
    /\ QuerySucceeded
    /\ Len(pods) = 0
    /\ ~o.showIPsOnly
    /\ o.allNamespaces
    /\ o.labelSelector = selTierApp
    /\ Len(out) = 1

\* no two pods of the list share an IP
NoSharedIPs ==
    \A i \in 1..Len(pods) : \A j \in 1..Len(pods) :
        i # j => PodIPSet(pods[i]) \cap PodIPSet(pods[j]) = {}

\* the IP printed by a chunk of the IP-only printer: the chunk without its newline
PrintedIP(chunk) ==
    SubSeq(chunk, 1, Len(chunk) - 1)

\* C6 as stated: with --show-ips-only and pods sharing no IP, every printed IP
\* is <= the IP on the next line, as strings.
C6_IPsAscending ==
    (QuerySucceeded /\ o.showIPsOnly /\ NoSharedIPs) =>
        \A k \in 1..(Len(out) - 1) :
            ~StrLess(PrintedIP(out[k + 1]), PrintedIP(out[k]))

\* C6 amended: with --show-ips-only and pods sharing no IP, the output is one
\* line for each non-empty IP of each pod, in non-decreasing order of (pod
\* namespace, pod name, IP): the IPs of one pod are ascending, the IPs of
\* different pods follow the order of the pods' namespaces and names.
C6_IPsInPodKeyOrder ==
    (QuerySucceeded /\ o.showIPsOnly /\ NoSharedIPs) =>
        /\ printed = <<>>
        /\ Len(out) = Len(sortedList)
        /\ \A k \in 1..Len(out) : out[k] = sortedList[k].ip \o strNewline
        /\ \A k \in 1..(Len(sortedList) - 1) :
               KeyLeq(PairKey(sortedList[k]), PairKey(sortedList[k + 1]))
        /\ \A i \in 1..Len(pods) : \A ip \in PodIPSet(pods[i]) :
               Cardinality({k \in 1..Len(sortedList) :
                               sortedList[k] = [pod |-> i, ip |-> ip]}) = 1
        /\ \A k \in 1..Len(sortedList) :
               sortedList[k].ip \in PodIPSet(pods[sortedList[k].pod])

\* two pods sharing no IP whose IPs are printed in descending order
C6_Witness ==
    /\ QuerySucceeded
    /\ o.showIPsOnly
    /\ NoSharedIPs
    /\ Len(out) = 2
    /\ StrLess(PrintedIP(out[2]), PrintedIP(out[1]))

\* C7: for a pod with a deletion timestamp FormatPodStatus returns "Unknown"
\* when status.reason is "NodeLost" and "Terminating" otherwise, whatever the
\* phase and the init and main container states.
C7_DeletionDecidesStatus ==
    (Done /\ pod.DeletionTimestamp) =>
        status = IF pod.Reason = strNodeLost THEN strUnknown ELSE strTerminating

\* a deleted NodeLost pod with an unfinished init container and a crashing container
C7_Witness ==
    /\ Done
    /\ pod.DeletionTimestamp
    /\ pod.Reason = strNodeLost
    /\ status = strUnknown
    /\ checkInitContainers(pod).initializing
    /\ \E k \in 1..Len(pod.ContainerStatuses) :
           pod.ContainerStatuses[k] = Waiting(strCrashLoopBackOff)

\* the column headers the flags ask for
ExpectedHeaders(showNamespace, wide, showLabels) ==
    (IF showNamespace THEN <<hdrNAMESPACE>> ELSE <<>>)
    \o <<hdrNAME, hdrIP, hdrSTATUS>>
    \o (IF wide THEN <<hdrREADY, hdrRESTARTS, hdrNODE>> ELSE <<>>)
    \o <<hdrAGE>>
    \o (IF showLabels THEN <<hdrLABELS>> ELSE <<>>)

\* the values the column called name may hold for pod p and IP ip
ColumnValues(name, p, ip) ==
    IF name = hdrNAMESPACE THEN {p.Namespace}
    ELSE IF name = hdrNAME THEN {p.Name}
    ELSE IF name = hdrIP THEN {ip}
    ELSE IF name = hdrSTATUS THEN {FormatPodStatus(p)}
    ELSE IF name = hdrREADY THEN {FormatPodReady(p)}
    ELSE IF name = hdrRESTARTS THEN {FormatRestarts(p)}
    ELSE IF name = hdrNODE THEN {GetNodeName(p)}
    ELSE IF name = hdrAGE THEN {FormatPodAge(p, Clock)}
    ELSE IF name = hdrLABELS THEN FormatLabels(p.Labels)
    ELSE {}

\* C8: the headers are [NAMESPACE?, NAME, IP, STATUS, READY?, RESTARTS?, NODE?,
\* AGE, LABELS?] as the flags say, and every row has one cell for each header,
\* cell i holding the value of column i for the row's pod and IP.
C8_HeadersAndCellsAligned ==
    Done =>
        LET names == [i \in 1..Len(table.ColumnDefinitions) |->
                         table.ColumnDefinitions[i].Name]
        IN  /\ names = ExpectedHeaders(o.showNamespace, o.wide, o.showLabels)
            /\ (o = NoFlags => names = <<hdrNAME, hdrIP, hdrSTATUS, hdrAGE>>)
            /\ Len(table.Rows) = Len(sortedList)
            /\ \A k \in 1..Len(table.Rows) :
                   /\ Len(table.Rows[k].Cells) = Len(names)
                   /\ table.Rows[k].Object = sortedList[k].pod
                   /\ \A i \in 1..Len(names) :
                          table.Rows[k].Cells[i] \in
                              ColumnValues(names[i], pods[sortedList[k].pod],
                                           sortedList[k].ip)

\* all flags set and a row of nine cells for the running pod web-10:
\* default, web-10, 10.0.0.9, Running, 1/1, 0, worker-1, 120m, a labels cell
C8_Witness ==
    /\ Done
    /\ o = [showNamespace |-> TRUE, wide |-> TRUE, showLabels |-> TRUE]
    /\ Len(table.ColumnDefinitions) = 9
    /\ \E k \in 1..Len(table.Rows) :
           /\ Len(table.Rows[k].Cells) = 9
           /\ SubSeq(table.Rows[k].Cells, 1, 8) =
                  <<strDefault, nameWeb10, ip9, strRunning, <<49, 47, 49>>, <<48>>,
                    nodeWorker1, <<49, 50, 48, 109>>>>

\* C9: after Complete the namespace is empty with --all-namespaces (also when
\* --namespace is given), else the --namespace value, else "default"; it is
\* empty if and only if --all-namespaces is set.
C9_NamespaceAfterComplete ==
    pc # "Complete" =>
        /\ o.namespace = IF o.allNamespaces THEN <<>>
                         ELSE IF o.nsFlag # <<>> THEN o.nsFlag
                         ELSE strDefault
        /\ (o.namespace = <<>>) <=> o.allNamespaces

\* --all-namespaces together with --namespace=kube-system
C9_Witness ==
    /\ pc # "Complete"
    /\ o.allNamespaces
    /\ o.nsFlag = nsKubeSystem
    /\ o.namespace = <<>>

\* the position of pair x in the sequence s of distinct pairs
Pos(s, x) ==
    CHOOSE k \in 1..Len(s) : s[k] = x

Keys(s) ==
    [k \in 1..Len(s) |-> PairKey(s[k])]

RECURSIVE ExactSum(_)
ExactSum(cs) ==
    IF cs = <<>> THEN [hi |-> 0, lo |-> 0]
    ELSE LET rest == ExactSum(Tail(cs))
             lo   == Head(cs).RestartCount.lo + rest.lo
         IN  [hi |-> Head(cs).RestartCount.hi + rest.hi + (lo \div 65536),
              lo |-> lo % 65536]

\* C12: FormatRestarts returns the decimal rendering of the arithmetic sum of the
\* restart counts of the pod's container statuses, also when the sum is above
\* 2^31 - 1, and "0" for a pod without container statuses.
C12_RestartsIsExactSum ==
    Done =>
        /\ status = DigitsU32(ExactSum(pod.ContainerStatuses))
        /\ (pod.ContainerStatuses = <<>> => status = <<48>>)

\* what C12 states, for the pods whose sum of restart counts is at most 2^31 - 1
C12_HoldsWhenSumFitsInt32 ==
    (Done /\ ExactSum(pod.ContainerStatuses).hi < 32768) =>
        /\ status = DigitsU32(ExactSum(pod.ContainerStatuses))
        /\ (pod.ContainerStatuses = <<>> => status = <<48>>)

\* C13: in name format Run prints one line for every row of the table, in the
\* order of the rows: "<namespace>/<pod name>" of the row's pod with
\* --all-namespaces and "<pod name>" without; every row has two cells or more.
C13_NameOutputOneLinePerRow ==
    (Done /\ QuerySucceeded /\ ~o.showIPsOnly /\ o.outputFormat = nameFormat
          /\ Len(table.Rows) > 0) =>
        /\ err = "nil"
        /\ printed = <<>>
        /\ Len(out) = Len(table.Rows)
        /\ \A k \in 1..Len(table.Rows) :
               LET p == pods[table.Rows[k].Object]
               IN  /\ Len(table.Rows[k].Cells) >= 2
                   /\ out[k] = IF o.allNamespaces
                               THEN p.Namespace \o strSlash \o p.Name \o strNewline
                               ELSE p.Name \o strNewline

\* name format with --all-namespaces on pods of two namespaces
C13_Witness ==
    /\ Done
    /\ QuerySucceeded
    /\ o.outputFormat = nameFormat
    /\ o.allNamespaces
    /\ ~o.showIPsOnly
    /\ Len(out) = 2
    /\ Len(table.Rows) = 2
    /\ pods[table.Rows[1].Object].Namespace # pods[table.Rows[2].Object].Namespace

\* C14: the process exits with a non-zero status whenever an error happened in
\* the run (an unsupported format, a failed cluster query, a failed write of the
\* output), and with status zero only when none happened.
C14_EveryErrorExitsNonZero ==
    Done =>
        (ExitStatus(err) = 0 <=>
            /\ Validate(o) = "nil"
            /\ QuerySucceeded
            /\ ~writeFailed)

\* what C14 states, for the runs in which no write to the output stream failed
C14_HoldsWhenNoWriteFailed ==
    (Done /\ ~writeFailed) =>
        (ExitStatus(err) = 0 <=> (Validate(o) = "nil" /\ QuerySucceeded))

\* the pod lists that hold the pod records of items in another order
Reorderings(items) ==
    {[k \in 1..Len(items) |-> items[f[k]]] :
        f \in {h \in [1..Len(items) -> 1..Len(items)] :
                 \A a \in 1..Len(items) : \E b \in 1..Len(items) : h[b] = a}}

\* the (namespace, pod name, IP) keys of the pairs of s, pairs of pods of items
KeysOver(items, s) ==
    [k \in 1..Len(s) |-> <<items[s[k].pod].Namespace, items[s[k].pod].Name, s[k].ip>>]

\* C15: generateTable on the same pod records listed in another order builds the
\* same sequence of (namespace, pod name, IP) rows.
C15_TableIndependentOfPodOrder ==
    Done =>
        \A items \in Reorderings(pods) :
            \A g \in generateTable(items, o.showNamespace, o.wide, o.showLabels, Clock) :
                /\ Len(g.table.Rows) = Len(table.Rows)
                /\ KeysOver(items, g.sortedList) = [k \in 1..Len(table.Rows) |-> RowKey(k)]

\* what C15 states, for the pod lists in which no two pod records share an IP
C15_HoldsWhenPodsShareNoIP ==
    (Done /\ NoSharedIPs) =>
        \A items \in Reorderings(pods) :
            \A g \in generateTable(items, o.showNamespace, o.wide, o.showLabels, Clock) :
                /\ Len(g.table.Rows) = Len(table.Rows)
                /\ KeysOver(items, g.sortedList) = [k \in 1..Len(table.Rows) |-> RowKey(k)]

\* the IPs of the pairs the extractor yielded for pod i
PairIPs(i) ==
    {podIPList[k].ip : k \in PairsOf(i)}

\* the IPs of the pairs the extractor yielded for the pods listed before pod i
EarlierIPs(i) ==
    {podIPList[k].ip : k \in {j \in 1..Len(podIPList) : podIPList[j].pod < i}}

\* C16: a pod whose primary IP is empty contributes no pair, whatever its
\* secondary IP list holds, and no pair has an empty IP.
C16_NoPairWithoutPrimaryIP ==
    Done =>
        /\ \A i \in 1..Len(pods) : pods[i].PodIP = <<>> => PairsOf(i) = {}
        /\ \A k \in 1..Len(podIPList) : podIPList[k].ip # <<>>

\* C16 amended: the extractor passes over an empty primary IP and over the empty
\* entries of the secondary list, not over the pod: a pod whose primary IP is
\* empty contributes one pair for every non-empty IP of its secondary list that
\* no pair of an earlier pod holds; no pair has an empty IP.
C16_EmptyIPsSkippedNotPods ==
    Done =>
        /\ \A i \in 1..Len(pods) :
               pods[i].PodIP = <<>> =>
                   /\ PairIPs(i) = PodIPSet(pods[i]) \ EarlierIPs(i)
                   /\ Cardinality(PairsOf(i)) = Cardinality(PairIPs(i))
        /\ \A k \in 1..Len(podIPList) : podIPList[k].ip # <<>>

\* a pod without primary IP, listed first, that got a pair for its secondary IP
C16_Witness ==
    /\ Done
    /\ Len(pods) = 2
    /\ pods[1].PodIP = <<>>
    /\ pods[1].PodIPs = <<ip9>>
    /\ PairsOf(1) # {}
    /\ pods[2].PodIPs = <<<<>>, ip10, ip10>>

\* an init container status that is terminated with exit code 0
InitFinished(c) ==
    c.Terminated # <<>> /\ c.Terminated[1].ExitCode = 0

\* the pod has no deletion timestamp and no unfinished init container
MainContainersDecide ==
    /\ ~pod.DeletionTimestamp
    /\ \A k \in 1..Len(pod.InitContainerStatuses) :
           InitFinished(pod.InitContainerStatuses[k])

\* the container status has a non-empty waiting reason or is terminated
HasReason(c) ==
    \/ c.Waiting # <<>> /\ c.Waiting[1].Reason # <<>>
    \/ c.Terminated # <<>>

\* the reason of such a container status
ReasonOf(c) ==
    IF c.Waiting # <<>> /\ c.Waiting[1].Reason # <<>> THEN c.Waiting[1].Reason
    ELSE IF c.Terminated[1].Reason # <<>> THEN c.Terminated[1].Reason
    ELSE IF c.Terminated[1].Signal # 0 THEN strSignal \o Itoa(c.Terminated[1].Signal)
    ELSE strExitCode \o Itoa(c.Terminated[1].ExitCode)

\* the reason of the lowest-index main container that has one, else status.reason
\* if it is not empty, else the phase
ScanReason ==
    LET cs   == pod.ContainerStatuses
        with == {k \in 1..Len(cs) : HasReason(cs[k])}
    IN  IF with # {}
        THEN ReasonOf(cs[CHOOSE k \in with : \A j \in with : k <= j])
        ELSE IF pod.Reason # <<>> THEN pod.Reason ELSE pod.Phase

\* a main container is reported ready and running
HasRunningReady ==
    \E k \in 1..Len(pod.ContainerStatuses) :
        pod.ContainerStatuses[k].Ready /\ pod.ContainerStatuses[k].Running

\* C17: for a pod without deletion timestamp and without unfinished init
\* container, FormatPodStatus returns the reason of the lowest-index main
\* container that has a waiting reason or is terminated, else status.reason if
\* not empty, else the phase; "Completed" becomes "Running" when a container is
\* ready and running.
C17_LowestIndexReasonWins ==
    (Done /\ MainContainersDecide) =>
        status = IF ScanReason = strCompleted /\ HasRunningReady THEN strRunning
                 ELSE ScanReason

\* two main containers with different reasons, the first one's is returned; the
\* pod has a finished init container
C17_Witness ==
    /\ Done
    /\ MainContainersDecide
    /\ Len(pod.InitContainerStatuses) = 1
    /\ Len(pod.ContainerStatuses) = 2
    /\ pod.ContainerStatuses[1] = Terminated(<<>>, 9, 137)
    /\ pod.ContainerStatuses[2] = Waiting(strCrashLoopBackOff)
    /\ status = strSignal \o <<57>>

\* the index of the first init container status that is not terminated with exit
\* code 0, when there is one
FirstUnfinished ==
    CHOOSE k \in 1..Len(pod.InitContainerStatuses) :
        /\ ~InitFinished(pod.InitContainerStatuses[k])
        /\ \A j \in 1..(k - 1) : InitFinished(pod.InitContainerStatuses[j])

\* C18: for a pod without deletion timestamp that has an init container not
\* terminated with exit code 0, FormatPodStatus returns "Init:" followed by what
\* the first such init container gives: its terminated reason, Signal:<n> or
\* ExitCode:<n>, its waiting reason, or <completed>/<total>, completed being the
\* number of init containers before it; nothing else of the pod counts.
C18_FirstUnfinishedInitDecides ==
    (Done /\ ~pod.DeletionTimestamp /\ ~MainContainersDecide) =>
        LET c == pod.InitContainerStatuses[FirstUnfinished]
            t == c.Terminated[1]
            w == c.Waiting[1]
        IN  /\ IsPrefix(strInit, status)
            /\ FirstUnfinished - 1 < Len(pod.InitContainerStatuses)
            /\ status =
                 strInit \o
                 (IF c.Terminated # <<>>
                  THEN IF t.Reason # <<>> THEN t.Reason
                       ELSE IF t.Signal # 0 THEN strSignal \o Itoa(t.Signal)
                       ELSE strExitCode \o Itoa(t.ExitCode)
                  ELSE IF c.Waiting # <<>> /\ w.Reason \notin {<<>>, strPodInitializing}
                  THEN w.Reason
                  ELSE Itoa(FirstUnfinished - 1) \o strSlash
                       \o Itoa(Len(pod.InitContainerStatuses)))

\* a finished init container, then one waiting for its turn, and a crashing
\* main container: the status is "Init:1/2"
C18_Witness ==
    /\ Done
    /\ ~pod.DeletionTimestamp
    /\ Len(pod.InitContainerStatuses) = 2
    /\ InitFinished(pod.InitContainerStatuses[1])
    /\ pod.InitContainerStatuses[2] = Waiting(strPodInitializing)
    /\ pod.ContainerStatuses = <<Waiting(strCrashLoopBackOff)>>
    /\ pod.Reason = strEvicted
    /\ status = strInit \o <<49>> \o strSlash \o <<50>>

\* a main container status terminated with reason "Completed" and exit code 0
CompletedSuccessfully(c) ==
    /\ c.Terminated # <<>>
    /\ c.Terminated[1].Reason = strCompleted
    /\ c.Terminated[1].ExitCode = 0

\* every main container has completed successfully or is ready and running,
\* one at least of each kind
AllCompletedButRunning ==
    LET cs == pod.ContainerStatuses
    IN  /\ HasRunningReady
        /\ \E k \in 1..Len(cs) : CompletedSuccessfully(cs[k])
        /\ \A k \in 1..Len(cs) :
               CompletedSuccessfully(cs[k]) \/ (cs[k].Ready /\ cs[k].Running)

\* C19: FormatPodStatus returns "Running" in place of "Completed" exactly when
\* all main containers have completed successfully except the ones, one at
\* least, that are ready and running; it never returns "Completed" for a pod
\* with a ready and running container, and replaces no status but "Completed".
C19_RunningExactlyWhenAllOthersCompleted ==
    (Done /\ MainContainersDecide) =>
        /\ (ScanReason = strCompleted /\ status = strRunning) <=> AllCompletedButRunning
        /\ HasRunningReady => status # strCompleted
        /\ (status = strRunning /\ ScanReason # strRunning) => ScanReason = strCompleted

\* C19 amended: FormatPodStatus returns "Running" in place of "Completed" exactly
\* when the reason the scan selects (that of the lowest-index main container
\* that has one) is "Completed" and some main container is ready and running,
\* whatever the states of the other containers; it never returns "Completed"
\* for a pod with a ready and running container, and replaces no status but
\* "Completed".
C19_RunningWhenSelectedReasonCompleted ==
    (Done /\ MainContainersDecide) =>
        /\ (ScanReason = strCompleted /\ status = strRunning)
               <=> (ScanReason = strCompleted /\ HasRunningReady)
        /\ HasRunningReady => status # strCompleted
        /\ (status = strRunning /\ ScanReason # strRunning) => ScanReason = strCompleted
        /\ status # ScanReason => status = strRunning

\* a completed container, a crashing one and a ready running one: "Running"
C19_Witness ==
    /\ Done
    /\ MainContainersDecide
    /\ pod.ContainerStatuses = <<Terminated(strCompleted, 0, 0),
                                 Waiting(strCrashLoopBackOff), RunningReady>>
    /\ status = strRunning

\* C20: Validate accepts a format exactly when createPrinter has a printer for
\* it, the formats being table, wide, json, yaml, name and the empty string;
\* once the cluster has been queried, Run does not fail with the
\* unsupported-format error.
C20_ValidateAgreesWithCreatePrinter ==
    /\ \A f \in SupportedFormats \cup {invalidFormat} :
           /\ (Validate([o EXCEPT !.outputFormat = f]) = "nil")
                  <=> (createPrinter(f, o.noHeaders, o.allNamespaces).err = "nil")
           /\ (Validate([o EXCEPT !.outputFormat = f]) = "nil") <=> (f \in SupportedFormats)
    /\ queries > 0 => err # "ErrUnsupportedFormat"

\* a run in name format that listed pods with IPs and printed them
C20_Witness ==
    /\ Done
    /\ QuerySucceeded
    /\ ~o.showIPsOnly
    /\ o.outputFormat = nameFormat
    /\ Len(table.Rows) > 0
    /\ Len(out) = Len(table.Rows)
    /\ err = "nil"

====
